---- MODULE Spec2Model ----
(***************************************************************************)
(* The single-line text-edit engine of GPTerm: ScrollPrompt (viewport      *)
(* scrolling line), StaticPrompt (truncated line) and TextPrompt           *)
(* (unbounded line), driven through Prompt::input, flush, str and          *)
(* update_size.                                                            *)
(*                                                                         *)
(* A Rust String is modelled as the sequence of its storage units (bytes); *)
(* indices are 0-based byte indices as in the source, so unit i of the     *)
(* source is element i + 1 of the sequence.  A panic (index out of range,  *)
(* not a char boundary, division by zero, arithmetic overflow, unwrap of   *)
(* an Err) is recorded in the field `panic` of the prompt it happened in;  *)
(* a panicked program takes no further step.                               *)
(***************************************************************************)
EXTENDS Integers, Sequences, FiniteSets, TLC

\* ------------------------------------------------------------------ bounds
\* longest stored text, in storage units
MaxLen == 5
\* longest clipboard text
MaxPaste == 2
\* largest viewport width handed to update_size
MaxSize == 3
\* cap on ScrollPrompt.offset for the plain right() step
MaxOffset == 7

\* ---------------------------------------------------------------- alphabet
Whitespace == {" "}
\* single-byte characters typed or pasted
Chars == {"a", " "}
\* a character whose UTF-8 encoding takes two storage units
WideChars == {"W"}
\* the continuation unit of a two-unit character
Cont == "~"

\* char::len_utf8 / the units String::insert and push_str store for c
utf8(c) == IF c \in WideChars THEN <<c, Cont>> ELSE <<c>>

\* the pasted texts
Pastes == UNION {[1..k -> Chars] : k \in 0..MaxPaste}

Builds == {"debug", "release"}

\* ------------------------------------------------------------ str / String
\* str::is_char_boundary
is_char_boundary(text, idx) ==
    \/ idx = 0
    \/ idx = Len(text)
    \/ (idx < Len(text) /\ text[idx + 1] # Cont)

\* the two halves of str::split_at(mid), once mid is a char boundary
split_left(text, mid) == SubSeq(text, 1, mid)
split_right(text, mid) == SubSeq(text, mid + 1, Len(text))

\* usize::saturating_sub
saturating_sub(a, b) == IF a > b THEN a - b ELSE 0

\* str::rfind(char::is_whitespace): byte index of the last whitespace, -1 for None
rfind_whitespace(s) ==
    LET hits == {i \in 1..Len(s) : s[i] \in Whitespace}
    IN IF hits = {} THEN -1 ELSE (CHOOSE i \in hits : \A j \in hits : j <= i) - 1

\* str::find(char::is_whitespace): byte index of the first whitespace, -1 for None
find_whitespace(s) ==
    LET hits == {i \in 1..Len(s) : s[i] \in Whitespace}
    IN IF hits = {} THEN -1 ELSE (CHOOSE i \in hits : \A j \in hits : i <= j) - 1

\* String::insert(idx, c) / splice of the units u at a char boundary idx
insert_at(text, idx, u) == split_left(text, idx) \o u \o split_right(text, idx)

\* number of units of the character that starts at byte index idx
char_len_at(text, idx) ==
    IF idx + 2 <= Len(text) /\ text[idx + 2] = Cont THEN 2 ELSE 1

\* String::remove(idx) panics unless idx < len and idx is a char boundary
remove_ok(text, idx) == idx >= 0 /\ idx < Len(text) /\ is_char_boundary(text, idx)

\* String::remove(idx): drops the whole character that starts at idx
remove_at(text, idx) ==
    split_left(text, idx) \o split_right(text, idx + char_len_at(text, idx))

\* an unwinding panic of the given kind in the prompt p
Panic(p, kind) == [p EXCEPT !.panic = kind]

\* --------------------------------------------------------------- ScrollPrompt
Scroll_new(size) ==
    [text |-> <<>>, size |-> size, cursor |-> 0, offset |-> 0, panic |-> "none"]

Scroll_max_offset(p) == saturating_sub(Len(p.text), p.size)

Scroll_eol(p) == (p.cursor + p.offset) = Len(p.text)

Scroll_real_cursor(p) == p.cursor + p.offset

Scroll_max_cursor(p) ==
    [p EXCEPT !.cursor = IF p.size > Len(p.text) THEN Len(p.text) ELSE p.size]

\* overflow_right that lets the visible cursor run past the right edge
Scroll_overflow_right_unclamped(p, n) == [p EXCEPT !.cursor = p.cursor + n]

Scroll_overflow_right(p, n) ==
    LET c == p.cursor + n
    IN IF c > p.size
       THEN [p EXCEPT !.offset = p.offset + (c - p.size), !.cursor = p.size]
       ELSE [p EXCEPT !.cursor = c]

Scroll_is_empty(p) == Len(p.text) = 0

\* down() that also clears the text
Scroll_down_clears_text(p) == [p EXCEPT !.cursor = 0, !.offset = 0, !.text = <<>>]

Scroll_down(p) == [p EXCEPT !.cursor = 0, !.offset = 0]

\* up() that moves the cursor but leaves the viewport where it was
Scroll_up_keeps_offset(p) == Scroll_max_cursor(p)

Scroll_up(p) ==
    LET q == Scroll_max_cursor(p)
    IN [q EXCEPT !.offset = Scroll_max_offset(q)]

\* update_size that keeps abs % size, abs / size even when the offset passes
\* the end of the text
Scroll_update_size_no_fallback(p, size) ==
    IF p.size # size
    THEN LET old == Scroll_real_cursor(p)
         IN IF size = 0
            THEN Panic([p EXCEPT !.size = size], "divzero")
            ELSE [p EXCEPT !.size = size,
                           !.cursor = old % size,
                           !.offset = old \div size]
    ELSE p

Scroll_update_size(p, size) ==
    IF p.size # size
    THEN LET old == Scroll_real_cursor(p)
         IN IF size = 0
            THEN Panic([p EXCEPT !.size = size], "divzero")
            ELSE LET q == [p EXCEPT !.size = size,
                                    !.cursor = old % size,
                                    !.offset = old \div size]
                 IN IF q.offset > Scroll_max_offset(q) THEN Scroll_up(q) ELSE q
    ELSE p

\* str(): the result [panic, val] of the call
Scroll_str(p) ==
    IF p.offset = 0
    THEN [panic |-> "none", val |-> p.text]
    ELSE IF is_char_boundary(p.text, p.offset) /\ p.offset <= Len(p.text)
         THEN [panic |-> "none", val |-> split_right(p.text, p.offset)]
         ELSE [panic |-> "index", val |-> <<>>]

\* flush(): the String it returns
Scroll_flush_ret(p) == p.text

\* flush() that forgets down(): the text is cleared, the viewport is not reset
Scroll_flush_keeps_viewport(p) == [p EXCEPT !.text = <<>>]

\* flush(): the prompt it leaves
Scroll_flush(p) == [Scroll_down(p) EXCEPT !.text = <<>>]

\* left() that never scrolls the window back
Scroll_left_keeps_offset(p) ==
    IF p.cursor # 0 THEN [p EXCEPT !.cursor = p.cursor - 1] ELSE p

Scroll_left(p) ==
    IF p.cursor # 0
    THEN [p EXCEPT !.cursor = p.cursor - 1]
    ELSE [p EXCEPT !.offset = saturating_sub(p.offset, 1)]

\* ctrl_left that never scrolls the window back: with found < offset it only
\* moves the visible cursor to 0
Scroll_ctrl_left_keeps_window(p) ==
    IF ~(p.cursor = 0 /\ p.offset = 0)
    THEN IF ~(p.cursor + p.offset <= Len(p.text)
              /\ is_char_boundary(p.text, p.cursor + p.offset))
         THEN Panic(p, "index")
         ELSE LET left == split_left(p.text, p.cursor + p.offset)
                  r == rfind_whitespace(left)
                  found == IF r = -1 THEN 0 ELSE r
              IN IF found < p.offset
                 THEN [p EXCEPT !.cursor = 0]
                 ELSE IF found > p.offset
                      THEN [p EXCEPT !.cursor = found - p.offset]
                      ELSE [p EXCEPT !.cursor = found, !.offset = 0]
    ELSE p

Scroll_ctrl_left(p) ==
    IF ~(p.cursor = 0 /\ p.offset = 0)
    THEN IF ~(p.cursor + p.offset <= Len(p.text)
              /\ is_char_boundary(p.text, p.cursor + p.offset))
         THEN Panic(p, "index")
         ELSE LET left == split_left(p.text, p.cursor + p.offset)
                  r == rfind_whitespace(left)
                  found == IF r = -1 THEN 0 ELSE r
              IN IF found < p.offset
                 THEN [p EXCEPT !.cursor = 0, !.offset = found]
                 ELSE IF found > p.offset
                      THEN [p EXCEPT !.cursor = found - p.offset]
                      ELSE [p EXCEPT !.cursor = found, !.offset = 0]
    ELSE p

\* right() without the end-of-line test
Scroll_right_past_end(p) ==
    IF p.cursor < p.size
    THEN [p EXCEPT !.cursor = p.cursor + 1]
    ELSE [p EXCEPT !.offset = p.offset + 1]

Scroll_right(p) ==
    IF ~Scroll_eol(p)
    THEN IF p.cursor < p.size
         THEN [p EXCEPT !.cursor = p.cursor + 1]
         ELSE [p EXCEPT !.offset = p.offset + 1]
    ELSE p

\* ctrl_right that skips the character under the cursor before it searches
Scroll_ctrl_right_past_cursor(p) ==
    IF ~Scroll_eol(p)
    THEN IF ~(p.cursor + p.offset + 1 <= Len(p.text)
              /\ is_char_boundary(p.text, p.cursor + p.offset + 1))
         THEN Panic(p, "index")
         ELSE LET right == split_right(p.text, p.cursor + p.offset + 1)
                  n == find_whitespace(right)
              IN IF n # -1 THEN Scroll_overflow_right(p, n + 1) ELSE Scroll_up(p)
    ELSE p

Scroll_ctrl_right(p) ==
    IF ~Scroll_eol(p)
    THEN IF ~(p.cursor + p.offset <= Len(p.text)
              /\ is_char_boundary(p.text, p.cursor + p.offset))
         THEN Panic(p, "index")
         ELSE LET right == split_right(p.text, p.cursor + p.offset)
                  n == find_whitespace(right)
              IN IF n # -1 THEN Scroll_overflow_right(p, n + 1) ELSE Scroll_up(p)
    ELSE p

Scroll_add_char(p, c) ==
    IF ~(p.cursor + p.offset <= Len(p.text)
         /\ is_char_boundary(p.text, p.cursor + p.offset))
    THEN Panic(p, "index")
    ELSE Scroll_right([p EXCEPT !.text = insert_at(p.text, p.cursor + p.offset, utf8(c))])

Scroll_add_str(p, s) ==
    LET c == Scroll_real_cursor(p)
    IN IF c = 0
       THEN Scroll_overflow_right([p EXCEPT !.text = s \o p.text], Len(s))
       ELSE IF c = Len(p.text)
            THEN LET q == [p EXCEPT !.text = p.text \o s]
                 IN [q EXCEPT !.offset = Scroll_max_offset(q)]
            ELSE IF ~(c <= Len(p.text) /\ is_char_boundary(p.text, c))
                 THEN Panic(p, "index")
                 ELSE Scroll_overflow_right(
                          [p EXCEPT !.text = insert_at(p.text, c, s)], Len(s))

\* remove_char that removes the character at the cursor, not the one before it
Scroll_remove_char_at_cursor(p) ==
    IF ~Scroll_is_empty(p)
    THEN LET c == Scroll_real_cursor(p)
         IN IF c > 0
            THEN IF ~remove_ok(p.text, c)
                 THEN Panic(p, "index")
                 ELSE Scroll_left([p EXCEPT !.text = remove_at(p.text, c)])
            ELSE p
    ELSE p

Scroll_remove_char(p) ==
    IF ~Scroll_is_empty(p)
    THEN LET c == Scroll_real_cursor(p)
         IN IF c > 0
            THEN IF ~remove_ok(p.text, c - 1)
                 THEN Panic(p, "index")
                 ELSE Scroll_left([p EXCEPT !.text = remove_at(p.text, c - 1)])
            ELSE p
    ELSE p

\* --------------------------------------------------------------- StaticPrompt
Static_new == [text |-> <<>>, cursor |-> 0, panic |-> "none"]

Static_is_empty(p) == Len(p.text) = 0

Static_str(p) == [panic |-> "none", val |-> p.text]

Static_flush_ret(p) == p.text

Static_flush(p) == [p EXCEPT !.cursor = 0, !.text = <<>>]

Static_down(p) == [p EXCEPT !.cursor = 0]

Static_up(p) == [p EXCEPT !.cursor = Len(p.text)]

Static_left(p) == [p EXCEPT !.cursor = saturating_sub(p.cursor, 1)]

\* ctrl_left that lands one past the whitespace it finds
Static_ctrl_left_past_space(p) ==
    IF p.cursor > 0
    THEN LET r == rfind_whitespace(split_left(p.text, p.cursor))
         IN [p EXCEPT !.cursor = IF r = -1 THEN 0 ELSE r + 1]
    ELSE p

Static_ctrl_left(p) ==
    IF p.cursor > 0
    THEN IF ~(p.cursor <= Len(p.text) /\ is_char_boundary(p.text, p.cursor))
         THEN Panic(p, "index")
         ELSE LET r == rfind_whitespace(split_left(p.text, p.cursor))
              IN [p EXCEPT !.cursor = IF r = -1 THEN 0 ELSE r]
    ELSE p

\* right() without the end-of-text test
Static_right_unclamped(p) == [p EXCEPT !.cursor = p.cursor + 1]

Static_right(p) ==
    IF p.cursor < Len(p.text) THEN [p EXCEPT !.cursor = p.cursor + 1] ELSE p

\* ctrl_right that scans from the cursor itself, as ScrollPrompt does
Static_ctrl_right_from_cursor(p) ==
    IF p.cursor < Len(p.text)
    THEN LET n == find_whitespace(split_right(p.text, p.cursor))
         IN IF n # -1
            THEN [p EXCEPT !.cursor = p.cursor + n + 1]
            ELSE [p EXCEPT !.cursor = Len(p.text)]
    ELSE p

Static_ctrl_right(p) ==
    IF p.cursor < Len(p.text)
    THEN IF ~is_char_boundary(p.text, p.cursor + 1)
         THEN Panic(p, "index")
         ELSE LET n == find_whitespace(split_right(p.text, p.cursor + 1))
              IN IF n # -1
                 THEN [p EXCEPT !.cursor = p.cursor + n + 1]
                 ELSE [p EXCEPT !.cursor = Len(p.text)]
    ELSE p

Static_add_char(p, c) ==
    IF ~(p.cursor <= Len(p.text) /\ is_char_boundary(p.text, p.cursor))
    THEN Panic(p, "index")
    ELSE Static_right([p EXCEPT !.text = insert_at(p.text, p.cursor, utf8(c))])

Static_add_str(p, s) ==
    IF p.cursor = 0
    THEN [p EXCEPT !.cursor = Len(s), !.text = s \o p.text]
    ELSE IF p.cursor = Len(p.text)
         THEN [p EXCEPT !.text = p.text \o s, !.cursor = Len(p.text \o s)]
         ELSE IF ~(p.cursor <= Len(p.text) /\ is_char_boundary(p.text, p.cursor))
              THEN Panic(p, "index")
              ELSE [p EXCEPT !.cursor = p.cursor + Len(s),
                             !.text = insert_at(p.text, p.cursor, s)]

Static_remove_char(p) ==
    IF ~Static_is_empty(p) /\ p.cursor > 0
    THEN IF ~remove_ok(p.text, p.cursor - 1)
         THEN Panic(p, "index")
         ELSE Static_left([p EXCEPT !.text = remove_at(p.text, p.cursor - 1)])
    ELSE p

\* ----------------------------------------------------------------- TextPrompt
Text_new == [text |-> <<>>, cursor |-> 0, panic |-> "none"]

Text_is_empty(p) == Len(p.text) = 0

Text_str(p) == [panic |-> "none", val |-> p.text]

Text_flush_ret(p) == p.text

Text_flush(p) == [p EXCEPT !.cursor = 0, !.text = <<>>]

Text_start(p) == [p EXCEPT !.cursor = 0]

Text_end(p) == [p EXCEPT !.cursor = Len(p.text)]

Text_left(p) == [p EXCEPT !.cursor = saturating_sub(p.cursor, 1)]

Text_ctrl_left(p) ==
    IF p.cursor > 0
    THEN IF ~(p.cursor <= Len(p.text) /\ is_char_boundary(p.text, p.cursor))
         THEN Panic(p, "index")
         ELSE LET r == rfind_whitespace(split_left(p.text, p.cursor))
              IN [p EXCEPT !.cursor = IF r = -1 THEN 0 ELSE r]
    ELSE p

Text_step_right(p, step) == [p EXCEPT !.cursor = p.cursor + step]

Text_right(p) ==
    IF p.cursor < Len(p.text) THEN Text_step_right(p, 1) ELSE p

Text_ctrl_right(p) ==
    IF p.cursor < Len(p.text)
    THEN IF ~is_char_boundary(p.text, p.cursor + 1)
         THEN Panic(p, "index")
         ELSE LET n == find_whitespace(split_right(p.text, p.cursor + 1))
              IN IF n # -1
                 THEN [p EXCEPT !.cursor = p.cursor + n + 1]
                 ELSE [p EXCEPT !.cursor = Len(p.text)]
    ELSE p

Text_add_char(p, c) ==
    IF ~(p.cursor <= Len(p.text) /\ is_char_boundary(p.text, p.cursor))
    THEN Panic(p, "index")
    ELSE Text_right([p EXCEPT !.text = insert_at(p.text, p.cursor, utf8(c))])

Text_add_str(p, s) == Text_step_right([p EXCEPT !.text = p.text \o s], Len(s))

\* `self.cursor - 1` with cursor = 0 panics in a debug build (overflow check);
\* a release build wraps to usize::MAX and String::remove panics on the index
Text_remove_char(p, build) ==
    IF ~Text_is_empty(p)
    THEN IF p.cursor = 0
         THEN Panic(p, IF build = "debug" THEN "overflow" ELSE "index")
         ELSE IF ~remove_ok(p.text, p.cursor - 1)
              THEN Panic(p, "index")
              ELSE Text_left([p EXCEPT !.text = remove_at(p.text, p.cursor - 1)])
    ELSE p

\* ------------------------------------------------------------------- state
VARIABLES
    variant,  \* which Prompt implementation backs the input field
    build,    \* the build profile of the program
    sp,       \* the ScrollPrompt
    st,       \* the StaticPrompt
    tp,       \* the TextPrompt
    last,     \* the last call: its name, arguments, the state before it, its result
    chats,          \* Chats.chats, each Chat with its answer stream
    selected_chat,  \* Chats.selected_chat
    writing,        \* Chats.writing
    drawn,          \* the host has drawn a frame since it last handled a key
    creator         \* the Creator window

vars == <<variant, build, sp, st, tp, last, chats, selected_chat, writing, drawn, creator>>

\* the windows, left alone by a run that drives a single prompt
windows == <<chats, selected_chat, writing, drawn, creator>>

\* no window is open
NoWindows ==
    /\ chats = <<>>
    /\ selected_chat = 0
    /\ writing = FALSE
    /\ drawn = FALSE
    /\ creator = <<>>

Variants == {"scroll", "static", "text"}

\* two implementations fed the same calls side by side
PairVariants == {"scroll+static", "text+static"}

UsesScroll == variant \in {"scroll", "scroll+static"}
UsesStatic == variant \in {"static", "scroll+static", "text+static"}
UsesText == variant \in {"text", "text+static"}

\* the prompt of the input field (side by side: the StaticPrompt)
Cur == CASE variant = "scroll" -> sp
         [] variant = "text" -> tp
         [] OTHER -> st

\* the program has not panicked
Running ==
    /\ UsesScroll => sp.panic = "none"
    /\ UsesStatic => st.panic = "none"
    /\ UsesText => tp.panic = "none"

\* longest text explored when two prompts run side by side
MaxPairLen == 2

LenBound == IF variant \in PairVariants THEN MaxPairLen ELSE MaxLen

\* k more storage units fit within the bound on the text
Fits(k) ==
    /\ UsesScroll => Len(sp.text) + k <= LenBound
    /\ UsesStatic => Len(st.text) + k <= LenBound
    /\ UsesText => Len(tp.text) + k <= LenBound

Init ==
    /\ variant \in Variants
    /\ build \in Builds
    /\ sp = Scroll_new(1)
    /\ st = Static_new
    /\ tp = Text_new
    /\ last = [op |-> "new", arg |-> <<>>, n |-> 0, pre |-> Cur, ret |-> <<>>]
    /\ NoWindows

\* one call on the input field's prompt: the implementation is picked by variant
Call(op, arg, n, nsp, nst, ntp, ret) ==
    /\ sp' = IF UsesScroll THEN nsp ELSE sp
    /\ st' = IF UsesStatic THEN nst ELSE st
    /\ tp' = IF UsesText THEN ntp ELSE tp
    /\ last' = [op |-> op, arg |-> arg, n |-> n, pre |-> Cur, ret |-> ret]
    /\ UNCHANGED <<variant, build>>
    /\ UNCHANGED windows

\* KeyCode::Char(c) without Ctrl+v
KeyChar ==
    \E c \in Chars :
        /\ Running
        /\ Fits(Len(utf8(c)))
        /\ Call("add_char", <<c>>, 0,
                Scroll_add_char(sp, c), Static_add_char(st, c), Text_add_char(tp, c),
                <<>>)

\* Ctrl+v, the clipboard read returns Ok(s)
KeyPaste ==
    \E s \in Pastes :
        /\ Running
        /\ Fits(Len(s))
        /\ Call("add_str", s, 0,
                Scroll_add_str(sp, s), Static_add_str(st, s), Text_add_str(tp, s),
                <<>>)

\* Ctrl+v, the clipboard read returns Err: unwrap() panics
KeyPasteErr ==
    /\ Running
    /\ Call("paste_err", <<>>, 0,
         Panic(sp, "unwrap"), Panic(st, "unwrap"), Panic(tp, "unwrap"), <<>>)

KeyBackspace ==
    /\ Running
    /\ Call("remove_char", <<>>, 0,
         Scroll_remove_char(sp), Static_remove_char(st), Text_remove_char(tp, build),
         <<>>)

KeyRight ==
    /\ Running
    /\ UsesScroll => Scroll_right(sp).offset <= MaxOffset
    /\ Call("right", <<>>, 0,
            Scroll_right(sp), Static_right(st), Text_right(tp), <<>>)

KeyCtrlRight ==
    /\ Running
    /\ Call("ctrl_right", <<>>, 0,
         Scroll_ctrl_right(sp), Static_ctrl_right(st), Text_ctrl_right(tp), <<>>)

KeyLeft ==
    /\ Running
    /\ Call("left", <<>>, 0,
         Scroll_left(sp), Static_left(st), Text_left(tp), <<>>)

KeyCtrlLeft ==
    /\ Running
    /\ Call("ctrl_left", <<>>, 0,
         Scroll_ctrl_left(sp), Static_ctrl_left(st), Text_ctrl_left(tp), <<>>)

KeyUp ==
    /\ Running
    /\ Call("up", <<>>, 0,
         Scroll_up(sp), Static_up(st), Text_end(tp), <<>>)

KeyDown ==
    /\ Running
    /\ Call("down", <<>>, 0,
         Scroll_down(sp), Static_down(st), Text_start(tp), <<>>)

\* the host takes the text on submit
Flush ==
    /\ Running
    /\ Call("flush", <<>>, 0,
         Scroll_flush(sp), Static_flush(st), Text_flush(tp),
         CASE variant = "scroll" -> Scroll_flush_ret(sp)
           [] variant = "text" -> Text_flush_ret(tp)
           [] OTHER -> Static_flush_ret(st))

\* the host asks for the text to draw
Render ==
    LET r == CASE variant = "scroll" -> Scroll_str(sp)
               [] variant = "text" -> Text_str(tp)
               [] OTHER -> Static_str(st)
    IN /\ Running
       /\ Call("str", <<>>, 0,
               Panic(sp, Scroll_str(sp).panic), Panic(st, Static_str(st).panic),
               Panic(tp, Text_str(tp).panic), r.val)

\* Chats::update hands the frame width, less the borders, to the ScrollPrompt
UpdateSize ==
    \E size \in 0..MaxSize :
        /\ Running
        /\ UsesScroll
        /\ Call("update_size", <<>>, size,
                Scroll_update_size(sp, size), st, tp, <<>>)

Next ==
    \/ KeyChar
    \/ KeyPaste
    \/ KeyPasteErr
    \/ KeyBackspace
    \/ KeyRight
    \/ KeyCtrlRight
    \/ KeyLeft
    \/ KeyCtrlLeft
    \/ KeyUp
    \/ KeyDown
    \/ Flush
    \/ Render
    \/ UpdateSize

Spec == Init /\ [][Next]_vars

TypeOK ==
    /\ variant \in Variants \cup PairVariants
    /\ build \in Builds
    /\ sp.cursor \in Nat /\ sp.offset \in Nat /\ sp.size \in Nat
    /\ Len(st.text) <= MaxLen /\ Len(tp.text) <= MaxLen
    /\ st.cursor \in Nat /\ tp.cursor \in Nat

\* ------------------------------------------------------------------ claims
IsScroll == variant = "scroll"

\* C1: no ScrollPrompt operation ever indexes the text out of range
C1_NoIndexPanic == IsScroll => sp.panic # "index"

\* C2: the visible cursor of a ScrollPrompt stays within 0..size
C2_CursorInViewport ==
    (IsScroll /\ Running) => (0 <= sp.cursor /\ sp.cursor <= sp.size)

\* C3: the offset of a ScrollPrompt stays within 0..max(0, len(text) - size)
C3_OffsetBounded ==
    (IsScroll /\ Running) =>
        (0 <= sp.offset /\ sp.offset <= saturating_sub(Len(sp.text), sp.size))

\* C4: the absolute cursor of a ScrollPrompt stays within 0..len(text)
C4_AbsCursorInText ==
    (IsScroll /\ Running) =>
        (0 <= sp.cursor + sp.offset /\ sp.cursor + sp.offset <= Len(sp.text))

\* the call `op` has just returned or panicked on the input field's prompt
Did(op) == last.op = op

\* old[0..c] + s + old[c..]
Spliced(old, c, s) == SubSeq(old, 1, c) \o s \o SubSeq(old, c + 1, Len(old))

\* C5: ScrollPrompt add_str of a non-empty s at absolute cursor a yields
\* old[0..a] + s + old[a..] and the absolute cursor a + len(s)
C5_ScrollAddStr ==
    (IsScroll /\ Did("add_str") /\ Len(last.arg) > 0) =>
        LET a == last.pre.cursor + last.pre.offset
        IN /\ sp.panic = "none"
           /\ sp.text = Spliced(last.pre.text, a, last.arg)
           /\ sp.cursor + sp.offset = a + Len(last.arg)

\* C6: StaticPrompt and TextPrompt add_str splices s into the text at the
\* cursor c and sets the cursor to c + len(s)
C6_PlainAddStr ==
    (~IsScroll /\ Did("add_str")) =>
        /\ Cur.panic = "none"
        /\ Cur.text = Spliced(last.pre.text, last.pre.cursor, last.arg)
        /\ Cur.cursor = last.pre.cursor + Len(last.arg)

\* C7: StaticPrompt and TextPrompt remove_char is a no-op at cursor 0, also on
\* a non-empty text; with cursor > 0 it removes the character at cursor - 1
\* and decrements the cursor
C7_PlainRemoveChar ==
    (~IsScroll /\ Did("remove_char")) =>
        IF last.pre.cursor = 0
        THEN Cur = last.pre
        ELSE /\ Cur.panic = "none"
             /\ Cur.text = SubSeq(last.pre.text, 1, last.pre.cursor - 1)
                           \o SubSeq(last.pre.text, last.pre.cursor + 1,
                                     Len(last.pre.text))
             /\ Cur.cursor = last.pre.cursor - 1

\* C8: flush returns exactly the text stored before the call and leaves the
\* prompt empty with cursor 0 and, for ScrollPrompt, offset 0 and the same size
C8_FlushRoundTrip ==
    Did("flush") =>
        /\ Cur.panic = "none"
        /\ last.ret = last.pre.text
        /\ Len(Cur.text) = 0
        /\ Cur.cursor = 0
        /\ IsScroll => (sp.offset = 0 /\ sp.size = last.pre.size)

\* C8 witness: a ScrollPrompt scrolled to the right over a non-empty text was flushed
C8_Witness ==
    /\ IsScroll /\ Did("flush")
    /\ Len(last.pre.text) > 1 /\ last.pre.offset > 0 /\ last.pre.cursor > 0

\* C9: update_size to a width >= 1 keeps cursor + offset
C9_ResizeKeepsAbsCursor ==
    (IsScroll /\ Did("update_size") /\ last.n >= 1) =>
        /\ sp.panic = "none"
        /\ sp.cursor + sp.offset = last.pre.cursor + last.pre.offset

\* C10: update_size(0) on a ScrollPrompt of non-zero width completes without
\* a panic and leaves a valid state of width 0
C10_ResizeZeroTotal ==
    (IsScroll /\ Did("update_size") /\ last.n = 0 /\ last.pre.size # 0) =>
        /\ sp.panic = "none"
        /\ sp.size = 0
        /\ sp.cursor = 0
        /\ sp.offset <= Len(sp.text)

\* C11: a failed clipboard read on a paste leaves the program running and the
\* line exactly as it was before the action
C11_PasteErrIsNoOp ==
    (variant \in Variants /\ Did("paste_err")) => Cur = last.pre

\* C12: the cursor of a StaticPrompt or TextPrompt stays within 0..len(text)
C12_PlainCursorInText ==
    /\ variant = "static" => (0 <= st.cursor /\ st.cursor <= Len(st.text))
    /\ variant = "text" => (0 <= tp.cursor /\ tp.cursor <= Len(tp.text))

\* C12 witness: right() was called with the cursor already at the end of a
\* non-empty text
C12_Witness ==
    /\ variant \in {"static", "text"} /\ Did("right")
    /\ Len(last.pre.text) > 1 /\ last.pre.cursor = Len(last.pre.text)

\* ------------------------------------------------------- multi-byte input
\* KeyCode::Char(c) for a character stored in more than one unit
KeyWideChar ==
    \E c \in WideChars :
        /\ Running
        /\ Fits(Len(utf8(c)))
        /\ Call("add_char", <<c>>, 0,
                Scroll_add_char(sp, c), Static_add_char(st, c), Text_add_char(tp, c),
                <<>>)

NextWide ==
    \/ Next
    \/ KeyWideChar

\* the input field when typed text is not restricted to single-byte characters
SpecWide == Init /\ [][NextWide]_vars

\* byte index i lies strictly inside a character of text
MidChar(text, i) == 0 < i /\ i < Len(text) /\ text[i + 1] = Cont

\* the byte indices the call op hands to String::insert, String::remove or
\* str::split_at when started on the prompt p
UsedIndices(op, p) ==
    LET c == IF IsScroll THEN p.cursor + p.offset ELSE p.cursor
        n == Len(p.text)
    IN CASE op = "add_char" -> {c}
         [] op = "add_str" ->
                IF variant = "text" \/ c = 0 \/ c = n THEN {} ELSE {c}
         [] op = "ctrl_left" -> IF c = 0 THEN {} ELSE {c}
         [] op = "ctrl_right" ->
                IF IsScroll THEN (IF c = n THEN {} ELSE {c})
                ELSE (IF c < n THEN {c + 1} ELSE {})
         [] op = "remove_char" -> IF n = 0 \/ c = 0 THEN {} ELSE {c - 1}
         [] op = "str" -> IF IsScroll /\ p.offset # 0 THEN {p.offset} ELSE {}
         [] OTHER -> {}

\* C13: cursor and offset always lie on character boundaries of the stored
\* text, and no insert, remove or split is made at an index inside a character
C13_CharBoundaries ==
    /\ (IsScroll /\ Running) =>
           (~MidChar(sp.text, sp.cursor + sp.offset) /\ ~MidChar(sp.text, sp.offset))
    /\ (variant = "static" /\ Running) => ~MidChar(st.text, st.cursor)
    /\ (variant = "text" /\ Running) => ~MidChar(tp.text, tp.cursor)
    /\ \A i \in UsedIndices(last.op, last.pre) : ~MidChar(last.pre.text, i)

\* ----------------------------------------------------- word jumps, plain
IsPlain == variant \in {"static", "text"}

\* byte indices of the whitespace characters of text in lo..hi-1
WsIn(text, lo, hi) == {i \in lo..(hi - 1) : text[i + 1] \in Whitespace}

MaxOf(S) == CHOOSE i \in S : \A j \in S : j <= i
MinOf(S) == CHOOSE i \in S : \A j \in S : i <= j

\* C14 as stated: ctrl_left of a StaticPrompt or TextPrompt with cursor > 0
\* lands just after the last whitespace before the cursor (its index + 1),
\* or at 0 if there is none; with cursor = 0 it is a no-op
C14_WordLeftAfterSpace ==
    (IsPlain /\ Did("ctrl_left")) =>
        IF last.pre.cursor = 0
        THEN Cur = last.pre
        ELSE LET ws == WsIn(last.pre.text, 0, last.pre.cursor)
             IN /\ Cur.panic = "none"
                /\ Cur.text = last.pre.text
                /\ Cur.cursor = IF ws = {} THEN 0 ELSE MaxOf(ws) + 1

\* C14 amended: ctrl_left of a StaticPrompt or TextPrompt with cursor > 0
\* lands on the last whitespace before the cursor (at its index, the
\* whitespace is the character right after the cursor), or at 0 if there is
\* none; with cursor = 0 it is a no-op
C14_WordLeftOnSpace ==
    (IsPlain /\ Did("ctrl_left")) =>
        IF last.pre.cursor = 0
        THEN Cur = last.pre
        ELSE LET ws == WsIn(last.pre.text, 0, last.pre.cursor)
             IN /\ Cur.panic = "none"
                /\ Cur.text = last.pre.text
                /\ Cur.cursor = IF ws = {} THEN 0 ELSE MaxOf(ws)

\* C14 witness: ctrl_left ran with a whitespace at an index > 0 before the cursor
C14_Witness ==
    /\ IsPlain /\ Did("ctrl_left")
    /\ last.pre.cursor > 0
    /\ WsIn(last.pre.text, 1, last.pre.cursor) # {}
    /\ Cur.cursor > 0

\* C15 as stated: ctrl_right of a StaticPrompt or TextPrompt with
\* cursor < len(text) lands just after the first whitespace at an index
\* >= cursor + 1 (its index + 1), or at len(text) if there is none; with
\* cursor = len(text) it is a no-op
C15_WordRightAfterSpace ==
    (IsPlain /\ Did("ctrl_right")) =>
        IF last.pre.cursor = Len(last.pre.text)
        THEN Cur = last.pre
        ELSE LET ws == WsIn(last.pre.text, last.pre.cursor + 1, Len(last.pre.text))
             IN /\ Cur.panic = "none"
                /\ Cur.text = last.pre.text
                /\ Cur.cursor = IF ws = {} THEN Len(last.pre.text) ELSE MinOf(ws) + 1

\* C15 amended: ctrl_right of a StaticPrompt or TextPrompt with
\* cursor < len(text) lands on the first whitespace at an index >= cursor + 1
\* (at its index), or at len(text) if there is none; with cursor = len(text)
\* it is a no-op
C15_WordRightOnSpace ==
    (IsPlain /\ Did("ctrl_right")) =>
        IF last.pre.cursor = Len(last.pre.text)
        THEN Cur = last.pre
        ELSE LET ws == WsIn(last.pre.text, last.pre.cursor + 1, Len(last.pre.text))
             IN /\ Cur.panic = "none"
                /\ Cur.text = last.pre.text
                /\ Cur.cursor = IF ws = {} THEN Len(last.pre.text) ELSE MinOf(ws)

\* C15 witness: ctrl_right ran with a whitespace after the character at the cursor
C15_Witness ==
    /\ IsPlain /\ Did("ctrl_right")
    /\ last.pre.cursor < Len(last.pre.text)
    /\ WsIn(last.pre.text, last.pre.cursor + 1, Len(last.pre.text)) # {}
    /\ Cur.cursor > last.pre.cursor + 1

\* ------------------------------------------------------- ScrollPrompt jumps
\* C16: up() of a ScrollPrompt sets cursor = min(size, len(text)) and
\* offset = max(0, len(text) - size), so cursor + offset = len(text) and str()
\* is the last min(size, len(text)) characters; down() sets cursor = 0 and
\* offset = 0
C16_JumpEndStart ==
    /\ (IsScroll /\ Did("up")) =>
           LET n == Len(last.pre.text)
               w == last.pre.size
               k == IF w < n THEN w ELSE n
           IN /\ sp.panic = "none"
              /\ sp.text = last.pre.text /\ sp.size = w
              /\ sp.cursor = k
              /\ sp.offset = (IF n > w THEN n - w ELSE 0)
              /\ sp.cursor + sp.offset = n
              /\ Scroll_str(sp) = [panic |-> "none", val |-> SubSeq(sp.text, n - k + 1, n)]
    /\ (IsScroll /\ Did("down")) =>
           /\ sp.panic = "none"
           /\ sp.text = last.pre.text /\ sp.size = last.pre.size
           /\ sp.cursor = 0 /\ sp.offset = 0

\* C16 witness: up() ran on a text longer than the viewport with the cursor
\* and the viewport at the start
C16_Witness ==
    /\ IsScroll /\ Did("up")
    /\ Len(last.pre.text) > last.pre.size
    /\ last.pre.cursor = 0 /\ last.pre.offset = 0
    /\ sp.cursor = last.pre.size /\ sp.offset > 0

\* ------------------------------------------------ scenarios of the test suite
\* the viewport width of the test fixture
TestSize == 5
\* how many characters a scenario may delete from its fixture text
MaxDeleted == 2

SomeTextHere == <<"S", "o", "m", "e", " ", "t", "e", "x", "t", " ", "h", "e", "r", "e">>
SmeTextHere == <<"S", "m", "e", " ", "t", "e", "x", "t", " ", "h", "e", "r", "e">>

\* tests::prompt(s): a ScrollPrompt of width 5 over s with cursor and offset 0
prompt(s) ==
    [text |-> s, size |-> TestSize, cursor |-> 0, offset |-> 0, panic |-> "none"]

InitTests ==
    /\ variant = "scroll"
    /\ build \in Builds
    /\ sp = prompt(SomeTextHere)
    /\ st = Static_new
    /\ tp = Text_new
    /\ last = [op |-> "new", arg |-> <<>>, n |-> 0, pre |-> sp, ret |-> <<>>]
    /\ NoWindows

\* Backspace, for as long as the scenario may still delete
TestBackspace ==
    /\ Running
    /\ Len(sp.text) + MaxDeleted > Len(SomeTextHere)
    /\ Call("remove_char", <<>>, 0,
            Scroll_remove_char(sp), Static_remove_char(st), Text_remove_char(tp, build),
            <<>>)

NextTests ==
    \/ TestBackspace
    \/ KeyRight
    \/ KeyCtrlRight
    \/ KeyLeft
    \/ KeyCtrlLeft
    \/ KeyUp
    \/ KeyDown
    \/ Render

\* the fixture of the test suite under moves and deletions
SpecTests == InitTests /\ [][NextTests]_vars

\* remove_char has just run on a ScrollPrompt of width 5 over text with
\* offset 3 and cursor 0
DeletedAt30(text) ==
    /\ IsScroll /\ Did("remove_char")
    /\ last.pre.text = text /\ last.pre.size = TestSize
    /\ last.pre.offset = 3 /\ last.pre.cursor = 0

\* C17 as stated: width 5, text "Some text here", offset 3, cursor 0:
\* remove_char leaves str() = " text here"
C17_DeleteScenario ==
    DeletedAt30(SomeTextHere) =>
        Scroll_str(sp) = [panic |-> "none",
                          val |-> <<" ", "t", "e", "x", "t", " ", "h", "e", "r", "e">>]

\* C17 amended: width 5, text "Some text here", offset 3, cursor 0:
\* remove_char leaves str() = "e text here" (text "Soe text here", offset 2);
\* str() = " text here" is what it leaves from the text "Sme text here"
C17_DeleteScenarioAmended ==
    /\ DeletedAt30(SomeTextHere) =>
           /\ sp.offset = 2 /\ sp.cursor = 0
           /\ Scroll_str(sp) =
                  [panic |-> "none",
                   val |-> <<"e", " ", "t", "e", "x", "t", " ", "h", "e", "r", "e">>]
    /\ DeletedAt30(SmeTextHere) =>
           /\ sp.offset = 2 /\ sp.cursor = 0
           /\ Scroll_str(sp) =
                  [panic |-> "none",
                   val |-> <<" ", "t", "e", "x", "t", " ", "h", "e", "r", "e">>]

\* C17 witness: the scenario's deletion has run on "Some text here"
C17_Witness == DeletedAt30(SomeTextHere) /\ sp.panic = "none"

\* the deletion of tests::delete_text on "Sme text here" has run
C17_TestWitness == DeletedAt30(SmeTextHere) /\ sp.panic = "none"

\* ------------------------------------------------------------- side by side
InitPair ==
    /\ variant \in PairVariants
    /\ build \in Builds
    /\ sp = Scroll_new(1)
    /\ st = Static_new
    /\ tp = Text_new
    /\ last = [op |-> "new", arg |-> <<>>, n |-> 0, pre |-> Cur, ret |-> <<>>]
    /\ NoWindows

\* two prompts receive every call together; the program stops when either panics
SpecPair == InitPair /\ [][Next]_vars

\* C18: ScrollPrompt and StaticPrompt fed the same calls keep the same text
\* and ScrollPrompt.cursor + ScrollPrompt.offset = StaticPrompt.cursor
C18_ScrollMatchesStatic ==
    variant = "scroll+static" =>
        /\ sp.text = st.text
        /\ sp.cursor + sp.offset = st.cursor

\* C19: TextPrompt and StaticPrompt fed the same calls keep the same text and
\* cursor, and neither panics where the other does not
C19_TextMatchesStatic ==
    variant = "text+static" =>
        /\ tp.text = st.text
        /\ tp.cursor = st.cursor
        /\ (tp.panic = "none") <=> (st.panic = "none")


\* ------------------------------------------------- ScrollPrompt word jumps
\* the index ctrl_left searches for: the last whitespace before the absolute
\* cursor, 0 if there is none
FoundLeft(p) ==
    LET ws == WsIn(p.text, 0, p.cursor + p.offset)
    IN IF ws = {} THEN 0 ELSE MaxOf(ws)

\* C20: ScrollPrompt ctrl_left, when the whitespace index found before the
\* absolute cursor equals the offset, sets the visible cursor to 0 and the
\* offset to 0
C20_WordLeftFoundAtOffset ==
    (/\ IsScroll
     /\ Did("ctrl_left")
     /\ ~(last.pre.cursor = 0 /\ last.pre.offset = 0)
     /\ last.pre.cursor + last.pre.offset <= Len(last.pre.text)
     /\ FoundLeft(last.pre) = last.pre.offset) =>
        /\ sp.cursor = 0
        /\ sp.offset = 0


\* the absolute cursor of a ScrollPrompt record
Abs(p) == p.cursor + p.offset

AtEnd(p) ==
    [p EXCEPT !.cursor = IF p.size < Len(p.text) THEN p.size ELSE Len(p.text),
              !.offset = IF Len(p.text) > p.size THEN Len(p.text) - p.size ELSE 0]

ManyWordsHere ==
    <<"m", "a", "n", "y", " ", "w", "o", "r", "d", "s", " ", "h", "e", "r", "e">>

Min(a, b) == IF a < b THEN a ELSE b
Max(a, b) == IF a > b THEN a ELSE b

\* the overflow-right rule: q is p moved forward by delta
OverflowRule(p, q, delta) ==
    /\ q.cursor = Min(p.size, p.cursor + delta)
    /\ q.offset = p.offset + Max(0, p.cursor + delta - p.size)
    /\ Abs(q) = Abs(p) + delta
    /\ q.cursor <= q.size

\* ctrl_right has run from a position with a whitespace at or after it
WordRightFound ==
    /\ IsScroll /\ Did("ctrl_right")
    /\ Abs(last.pre) < Len(last.pre.text)
    /\ WsIn(last.pre.text, Abs(last.pre), Len(last.pre.text)) # {}

\* add_str has run with the cursor at the start or inside the text
PasteNotAtEnd ==
    /\ IsScroll /\ Did("add_str")
    /\ Abs(last.pre) = 0 \/ Abs(last.pre) < Len(last.pre.text)

\* C23: from a state with cursor <= size, ctrl_right that finds a whitespace
\* and add_str in its prepend and middle cases move forward by delta under
\* the overflow-right rule: cursor = min(size, cursor + delta), offset grows by
\* max(0, cursor + delta - size); width 5, "many words here", cursor 5,
\* offset 0: ctrl_right gives offset 6, cursor 5
C23_OverflowRight ==
    /\ (WordRightFound /\ last.pre.cursor <= last.pre.size) =>
           LET p == last.pre
               w == MinOf(WsIn(p.text, Abs(p), Len(p.text)))
           IN OverflowRule(p, sp, w - Abs(p) + 1)
    /\ (PasteNotAtEnd /\ last.pre.cursor <= last.pre.size) =>
           OverflowRule(last.pre, sp, Len(last.arg))
    /\ LET q == Scroll_ctrl_right([prompt(ManyWordsHere) EXCEPT !.cursor = 5])
       IN q.offset = 6 /\ q.cursor = 5 /\ q.panic = "none"

\* a ctrl_right that ran the visible cursor into the right edge and scrolled
C23_Witness ==
    /\ WordRightFound
    /\ last.pre.cursor <= last.pre.size
    /\ sp.cursor = sp.size
    /\ sp.offset > last.pre.offset + 1


\* ------------------------------------------------------- ScrollPrompt resize
Digits == <<"1", "2", "3", "4", "5", "6", "7", "8", "9">>
\* the width tests::update_size resizes to
TestResize == 20

\* update_size(last.n) has run with a width of at least 1 that differs from
\* the old one
Resized ==
    /\ IsScroll /\ Did("update_size")
    /\ last.n >= 1 /\ last.n # last.pre.size

\* C24: update_size(n) with n = size changes nothing; with n >= 1 and
\* a = cursor + offset it gives size = n, cursor = a mod n, offset = a div n,
\* unless that offset exceeds max(0, len - n), when it gives the state of
\* jump_to_end; with n > a it gives offset 0, cursor a and str() = text
C24_Resize ==
    /\ (IsScroll /\ Did("update_size") /\ last.n = last.pre.size) => sp = last.pre
    /\ Resized =>
           LET a == Abs(last.pre)
               q == [last.pre EXCEPT !.size = last.n,
                                     !.cursor = a % last.n,
                                     !.offset = a \div last.n]
           IN /\ sp = IF q.offset > Max(0, Len(q.text) - last.n) THEN AtEnd(q) ELSE q
              /\ last.n > a =>
                     /\ sp.offset = 0 /\ sp.cursor = a
                     /\ Scroll_str(sp) = [panic |-> "none", val |-> sp.text]
    /\ LET q == Scroll_update_size([prompt(Digits) EXCEPT !.offset = 4], TestResize)
       IN q.offset = 0 /\ q.cursor = 4 /\ Scroll_str(q).val = Digits

\* a resize whose a div n passed the end of the text and fell back to the end
C24_Witness ==
    /\ Resized
    /\ Abs(last.pre) \div last.n > Max(0, Len(last.pre.text) - last.n)
    /\ sp = AtEnd([last.pre EXCEPT !.size = last.n])
    /\ sp.offset > 0


\* ------------------------------------------------------ ScrollPrompt editing
\* q is p after one step forward with right() semantics
StepRight(p, q) ==
    /\ IF p.cursor < p.size
       THEN q.cursor = p.cursor + 1 /\ q.offset = p.offset
       ELSE q.cursor = p.size /\ q.offset = p.offset + 1
    /\ Abs(q) = Abs(p) + 1

\* C25: ScrollPrompt add_char(c) from any reachable state with absolute
\* cursor a inserts c at index a and moves one position forward: the cursor
\* increments if it is below size, else the offset increments and the cursor
\* stays at size; the new absolute cursor is a + 1
C25_InsertChar ==
    (IsScroll /\ Did("add_char")) =>
        /\ sp.panic = "none"
        /\ Abs(last.pre) <= Len(last.pre.text)
        /\ sp.text = Spliced(last.pre.text, Abs(last.pre), last.arg)
        /\ sp.size = last.pre.size
        /\ StepRight(last.pre, sp)


\* q is p after one step back with left() semantics, from an absolute cursor > 0
StepLeft(p, q) ==
    /\ IF p.cursor > 0
       THEN q.cursor = p.cursor - 1 /\ q.offset = p.offset
       ELSE q.cursor = 0 /\ q.offset = p.offset - 1
    /\ Abs(q) = Abs(p) - 1

\* old without its character at index i
Without(old, i) == SubSeq(old, 1, i) \o SubSeq(old, i + 2, Len(old))

C27_MoveLeft ==
    (IsScroll /\ Did("left")) =>
        LET p == last.pre
        IN sp = IF p.cursor > 0
                THEN [p EXCEPT !.cursor = p.cursor - 1]
                ELSE IF p.offset > 0
                     THEN [p EXCEPT !.offset = p.offset - 1]
                     ELSE p

\* a left() at the left edge of a scrolled window
C27_Witness ==
    /\ IsScroll /\ Did("left")
    /\ last.pre.cursor = 0 /\ last.pre.offset > 1
    /\ sp.cursor = 0 /\ sp.offset = last.pre.offset - 1

\* C28: ScrollPrompt right() with cursor + offset = len(text) changes nothing;
\* otherwise with cursor < size it increments the cursor and leaves the
\* offset, and with cursor = size it increments the offset and the cursor
\* stays at size
C28_MoveRight ==
    (IsScroll /\ Did("right")) =>
        LET p == last.pre
        IN IF Abs(p) = Len(p.text)
           THEN sp = p
           ELSE /\ p.cursor < p.size => sp = [p EXCEPT !.cursor = p.cursor + 1]
                /\ p.cursor = p.size => sp = [p EXCEPT !.offset = p.offset + 1]

\* a right() at the right edge of the window, before the end of the text
C28_Witness ==
    /\ IsScroll /\ Did("right")
    /\ last.pre.cursor = last.pre.size
    /\ Abs(last.pre) < Len(last.pre.text)
    /\ sp.cursor = sp.size /\ sp.offset = last.pre.offset + 1


\* ------------------------------------------------- ScrollPrompt navigation
Navigation == {"left", "right", "ctrl_left", "ctrl_right", "down", "up"}

\* C29: ScrollPrompt left, right, ctrl_left, ctrl_right, down and up leave the
\* text and the size unchanged, and update_size leaves the text unchanged
C29_NavigationFrame ==
    /\ (IsScroll /\ last.op \in Navigation) =>
           (sp.text = last.pre.text /\ sp.size = last.pre.size)
    /\ (IsScroll /\ Did("update_size")) => sp.text = last.pre.text

\* a down() that scrolled a non-empty text back to its start
C29_Witness ==
    /\ IsScroll /\ Did("down")
    /\ last.pre.offset > 0 /\ sp.offset = 0
    /\ Len(sp.text) > 1
    /\ sp.text = last.pre.text /\ sp.size = last.pre.size

RECURSIVE WordLeftTimes(_, _)
\* p after n calls of ctrl_left
WordLeftTimes(p, n) ==
    IF n = 0 THEN p ELSE WordLeftTimes(Scroll_ctrl_left(p), n - 1)

\* C30: in every reachable state of a ScrollPrompt, ctrl_left with absolute
\* cursor > 0 strictly decreases the absolute cursor, and len(text) calls of
\* ctrl_left reach cursor = 0, offset = 0, where further calls change nothing
C30_WordLeftTerminates ==
    /\ (IsScroll /\ Did("ctrl_left") /\ Abs(last.pre) > 0) =>
           Abs(sp) < Abs(last.pre)
    /\ (IsScroll /\ Running) =>
           LET q == WordLeftTimes(sp, Len(sp.text))
           IN /\ q.panic = "none"
              /\ q.cursor = 0 /\ q.offset = 0
              /\ Scroll_ctrl_left(q) = q


\* ------------------------------------------------- ScrollPrompt round trips
\* C31: in every reachable state of a ScrollPrompt and for every character c,
\* add_char(c) followed at once by remove_char() restores the text and the
\* absolute cursor
C31_InsertThenDelete ==
    (IsScroll /\ Running) =>
        \A c \in Chars :
            LET q == Scroll_remove_char(Scroll_add_char(sp, c))
            IN /\ q.panic = "none"
               /\ q.text = sp.text
               /\ Abs(q) = Abs(sp)


\* ================================================================== windows
\* longest text typed into a window's input line
MaxWinLen == 1

\* the key events a prompt handles: code, and the character typed or the
\* clipboard text pasted
PromptKeys ==
    {[code |-> "Char", s |-> <<c>>] : c \in Chars}
    \cup {[code |-> "Paste", s |-> s] : s \in Pastes}
    \cup {[code |-> k, s |-> <<>>] :
            k \in {"PasteErr", "Backspace", "Right", "CtrlRight", "Left",
                   "CtrlLeft", "Up", "Down"}}

\* Prompt::input of prompt/mod.rs on a ScrollPrompt
Scroll_input(p, key) ==
    CASE key.code = "Char" -> Scroll_add_char(p, key.s[1])
      [] key.code = "Paste" -> Scroll_add_str(p, key.s)
      [] key.code = "PasteErr" -> Panic(p, "unwrap")
      [] key.code = "Backspace" -> Scroll_remove_char(p)
      [] key.code = "Right" -> Scroll_right(p)
      [] key.code = "CtrlRight" -> Scroll_ctrl_right(p)
      [] key.code = "Left" -> Scroll_left(p)
      [] key.code = "CtrlLeft" -> Scroll_ctrl_left(p)
      [] key.code = "Up" -> Scroll_up(p)
      [] key.code = "Down" -> Scroll_down(p)

\* Prompt::input of prompt.rs on a TextPrompt
Text_input(p, key, b) ==
    CASE key.code = "Char" -> Text_add_char(p, key.s[1])
      [] key.code = "Paste" -> Text_add_str(p, key.s)
      [] key.code = "PasteErr" -> Panic(p, "unwrap")
      [] key.code = "Backspace" -> Text_remove_char(p, b)
      [] key.code = "Right" -> Text_right(p)
      [] key.code = "CtrlRight" -> Text_ctrl_right(p)
      [] key.code = "Left" -> Text_left(p)
      [] key.code = "CtrlLeft" -> Text_ctrl_left(p)
      [] key.code = "Up" -> Text_end(p)
      [] key.code = "Down" -> Text_start(p)

\* ------------------------------------------------------------------ Creator
Creator_new == [focus |-> "Title", title |-> Text_new, system |-> Text_new]

\* flush(): the Action it returns
Creator_flush_ret(c) == <<"New", Text_flush_ret(c.title), Text_flush_ret(c.system)>>

\* flush(): the window it leaves
Creator_flush(c) ==
    [c EXCEPT !.title = Text_flush(c.title), !.system = Text_flush(c.system)]

Creator_reset(c) == Creator_new

Creator_next(c) ==
    [c EXCEPT !.focus = IF c.focus = "Title" THEN "System" ELSE "Title"]

Creator_current_prompt(c) == IF c.focus = "Title" THEN c.title ELSE c.system

\* the window with its focused prompt replaced by p
Creator_with_current(c, p) ==
    IF c.focus = "Title" THEN [c EXCEPT !.title = p] ELSE [c EXCEPT !.system = p]

\* neither input line of the window has panicked
CreatorRunning ==
    /\ creator.title.panic = "none"
    /\ creator.system.panic = "none"

InitCreator ==
    /\ variant = "creator"
    /\ build \in Builds
    /\ sp = Scroll_new(1)
    /\ st = Static_new
    /\ tp = Text_new
    /\ chats = <<>>
    /\ selected_chat = 0
    /\ writing = FALSE
    /\ drawn = FALSE
    /\ creator = Creator_new
    /\ last = [op |-> "new", arg |-> <<>>, n |-> 0, pre |-> Creator_new, ret |-> <<>>]

\* one call of Creator::input: the window it leaves and the Option<Action>
\* it returns (<<>> is None)
CreatorInput(op, arg, nc, ret) ==
    /\ creator' = nc
    /\ last' = [op |-> op, arg |-> arg, n |-> 0, pre |-> creator, ret |-> ret]
    /\ UNCHANGED <<variant, build, sp, st, tp, chats, selected_chat, writing, drawn>>

CreatorEsc ==
    /\ CreatorRunning
    /\ CreatorInput("Esc", <<>>, Creator_reset(creator), <<"Quit">>)

CreatorTab ==
    /\ CreatorRunning
    /\ CreatorInput("Tab", <<>>, Creator_next(creator), <<>>)

CreatorEnter ==
    /\ CreatorRunning
    /\ IF ~Text_is_empty(creator.title)
       THEN CreatorInput("Enter", <<>>, Creator_flush(creator), Creator_flush_ret(creator))
       ELSE CreatorInput("Enter", <<>>, creator, <<"Quit">>)

CreatorKey ==
    \E key \in PromptKeys :
        LET p == Text_input(Creator_current_prompt(creator), key, build)
        IN /\ CreatorRunning
           /\ Len(p.text) <= MaxWinLen
           /\ CreatorInput(key.code, key.s, Creator_with_current(creator, p), <<>>)

NextCreator ==
    \/ CreatorEsc
    \/ CreatorTab
    \/ CreatorEnter
    \/ CreatorKey

\* the chat-creation window under key events
SpecCreator == InitCreator /\ [][NextCreator]_vars

\* C35: whenever Creator::input returns an action (Quit on Esc, New on Enter
\* with a title, Quit on Enter without one), the title and the system line
\* are both empty afterwards
C35_CreatorLinesCleared ==
    (variant = "creator" /\ last.ret # <<>>) =>
        /\ creator.title.text = <<>>
        /\ creator.system.text = <<>>


\* -------------------------------------------------------------------- Chats
\* most chats open at once
MaxChats == 2
\* most messages in one chat's history
MaxMsgs == 4
\* most content chunks one answer stream delivers
MaxChunks == 1

\* the terminal widths a frame reports
FrameWidths == {7, 8, 9}
\* the columns Chats::update takes off the frame width for the prompt
PromptMargin == 8
\* the columns wrapped_text takes off the width of the chat's box
WrapMargin == 6
\* the chunk of an answer the completion service streams
Chunk == <<"a">>
\* Option<String> values of add_chat's system argument: <<>> is None
Systems == {<<>>, <<Chunk>>}

user_msg(msg) == [role |-> "user", content |-> msg]
system_msg(msg) == [role |-> "system", content |-> msg]
assistant_msg(msg) == [role |-> "assistant", content |-> msg]

\* wrapped_text: size - 6 on a u16 is checked in a debug build
wrapped_text_panics(size, b) == b = "debug" /\ size < WrapMargin

\* a Chat: its history, the width of the box it was last wrapped for, its
\* prompt, loading flag, whether reader is Some, the messages in flight on the
\* reader's channel, the state of the thread that holds the channel's sender,
\* and whether a call on the chat has panicked; the wrapped lines and the
\* scroll position kept for display are left out
Chat_new(system) ==
    [messages |-> IF system = <<>> THEN <<>> ELSE <<system_msg(system[1])>>,
     last_size |-> 0,
     prompt |-> Scroll_new(1),
     loading |-> FALSE,
     reader |-> FALSE,
     chan |-> <<>>,
     thread |-> "none",
     panic |-> "none"]

Chat_default == Chat_new(<<>>)

\* a call on the chat or on its prompt has panicked
Chat_panicked(c) == c.panic # "none" \/ c.prompt.panic # "none"

Chat_new_message(c, message, b) ==
    IF wrapped_text_panics(c.last_size, b)
    THEN [c EXCEPT !.panic = "overflow"]
    ELSE [c EXCEPT !.messages = Append(c.messages, message)]

Chat_update_last(c, message, b) ==
    IF c.messages = <<>>
    THEN [c EXCEPT !.panic = "unwrap"]
    ELSE LET c1 == [c EXCEPT !.messages[Len(c.messages)].content = @ \o message]
         IN IF wrapped_text_panics(c.last_size, b)
            THEN [c1 EXCEPT !.panic = "overflow"]
            ELSE c1

\* update_box: a new size is kept and every message is wrapped for it
Chat_update_box(c, size, b) ==
    IF size = c.last_size
    THEN c
    ELSE IF c.messages # <<>> /\ wrapped_text_panics(size, b)
         THEN [c EXCEPT !.last_size = size, !.panic = "overflow"]
         ELSE [c EXCEPT !.last_size = size]

\* user() that reads the prompt only after it has flushed it
Chat_user_after_flush(c, b) ==
    Chat_new_message([c EXCEPT !.prompt = Scroll_flush(c.prompt)],
                     user_msg(Scroll_flush_ret(Scroll_flush(c.prompt))), b)

Chat_user(c, b) ==
    Chat_new_message([c EXCEPT !.prompt = Scroll_flush(c.prompt)],
                     user_msg(Scroll_flush_ret(c.prompt)), b)

\* Chats as a record of its fields
Chats_new == [chats |-> <<Chat_default>>, selected_chat |-> 0, writing |-> FALSE]

Chats_chat(w) == w.chats[w.selected_chat + 1]

Chats_next_tab(w) ==
    [w EXCEPT !.selected_chat = (w.selected_chat + 1) % Len(w.chats)]

Chats_previous_tab(w) ==
    [w EXCEPT !.selected_chat = IF w.selected_chat = 0
                                THEN Len(w.chats) - 1
                                ELSE w.selected_chat - 1]

Chats_add_chat(w, system) ==
    [w EXCEPT !.chats = Append(w.chats, Chat_new(system)),
              !.selected_chat = Len(w.chats)]

\* remove_chat that leaves selected_chat where it was
Chats_remove_chat_keeps_index(w) ==
    LET rest == SubSeq(w.chats, 1, w.selected_chat)
                \o SubSeq(w.chats, w.selected_chat + 2, Len(w.chats))
    IN IF rest = <<>>
       THEN [w EXCEPT !.chats = <<Chat_default>>]
       ELSE [w EXCEPT !.chats = rest]

Chats_remove_chat(w) ==
    LET rest == SubSeq(w.chats, 1, w.selected_chat)
                \o SubSeq(w.chats, w.selected_chat + 2, Len(w.chats))
    IN IF rest = <<>>
       THEN [w EXCEPT !.chats = <<Chat_default>>]
       ELSE [w EXCEPT !.chats = rest,
                      !.selected_chat = saturating_sub(w.selected_chat, 1)]


\* the values of a u16
U16 == 65536

\* Enter that starts writing whether or not an answer is still being read
Chats_enter_any(w) == [w EXCEPT !.writing = TRUE]

\* Chats::input, Enter while not writing
Chats_enter(w) ==
    IF ~Chats_chat(w).reader THEN [w EXCEPT !.writing = TRUE] ELSE w

\* whether Enter while writing submits the prompt
Chats_submits(w) ==
    ~Chats_chat(w).loading /\ ~Scroll_is_empty(Chats_chat(w).prompt)

\* Chats::input, Enter while writing: the user message, a fresh channel whose
\* receiver becomes the chat's reader and whose sender goes to a new
\* stream_answer thread, and the empty assistant message; a panic in user()
\* ends the handler there
Chats_submit(w, b) ==
    IF Chats_submits(w)
    THEN LET u == Chat_user(Chats_chat(w), b)
             c == [u EXCEPT !.reader = TRUE, !.chan = <<>>, !.thread = "live"]
         IN IF Chat_panicked(u)
            THEN [w EXCEPT !.chats[w.selected_chat + 1] = u]
            ELSE [w EXCEPT !.chats[w.selected_chat + 1] =
                               Chat_new_message(c, assistant_msg(<<>>), b),
                           !.writing = FALSE]
    ELSE w

\* Chats::input, any other key while writing
Chats_prompt_input(w, key) ==
    [w EXCEPT !.chats[w.selected_chat + 1].prompt = Scroll_input(@, key)]

\* the body of the loop of Chats::update for one chat, on a frame of that width
Chat_update(c, width, b) ==
    IF width < PromptMargin /\ b = "debug"
    THEN [c EXCEPT !.panic = "overflow"]
    ELSE LET size == (width + U16 - PromptMargin) % U16
             c1 == [c EXCEPT !.prompt = Scroll_update_size(c.prompt, size)]
         IN IF c1.prompt.panic # "none" \/ ~c1.reader \/ c1.chan = <<>>
            THEN c1
            ELSE LET res == Head(c1.chan)
                     c2 == [c1 EXCEPT !.chan = Tail(c1.chan)]
                 IN CASE res = "err" -> [c2 EXCEPT !.panic = "unwrap"]
                      [] res = "end" -> [c2 EXCEPT !.reader = FALSE]
                      [] OTHER -> Chat_update_last(c2, Chunk, b)

\* reader.recv() would wait: nothing in flight and the sender still held
Chat_blocked(c) == c.reader /\ c.chan = <<>> /\ c.thread = "live"

\* the chunks the chat's stream has produced so far
Chat_chunks(c) ==
    Len(c.messages[Len(c.messages)].content)
    + Cardinality({k \in 1..Len(c.chan) : c.chan[k] = "chunk"})

\* Chats as the record of its fields
W == [chats |-> chats, selected_chat |-> selected_chat, writing |-> writing]

\* the program runs: no panic, no quit, and the selected chat exists
ChatsRunning ==
    /\ selected_chat < Len(chats)
    /\ \A i \in 1..Len(chats) : ~Chat_panicked(chats[i])
    /\ last.ret # <<TRUE>>

InitChats ==
    /\ variant = "chats"
    /\ build \in Builds
    /\ sp = Scroll_new(1)
    /\ st = Static_new
    /\ tp = Text_new
    /\ chats = Chats_new.chats
    /\ selected_chat = Chats_new.selected_chat
    /\ writing = Chats_new.writing
    /\ drawn = FALSE
    /\ creator = <<>>
    /\ last = [op |-> "new", arg |-> <<>>, n |-> 0, pre |-> Chats_new, ret |-> <<>>]

\* the host's loop draws a frame, then reads one key and handles it
HostReads == ChatsRunning /\ drawn

\* one step on Chats: the fields it leaves and what it returns; the state
\* before the step is kept for Enter only; a frame has been drawn after an
\* update and is due again after a key, while a thread's step changes neither
ChatsStep(op, arg, n, w, ret) ==
    /\ chats' = w.chats
    /\ selected_chat' = w.selected_chat
    /\ writing' = w.writing
    /\ drawn' = CASE op = "update" -> TRUE
                  [] op \in {"send", "return"} -> drawn
                  [] OTHER -> FALSE
    /\ last' = [op |-> op, arg |-> arg, n |-> n,
                pre |-> IF op \in {"enter", "submit"} THEN W ELSE <<>>,
                ret |-> ret]
    /\ UNCHANGED <<variant, build, sp, st, tp, creator>>


\* 'q' while not writing: input returns true and the program ends
MenuQuit ==
    /\ HostReads
    /\ ~writing
    /\ ChatsStep("q", <<>>, 0, W, <<TRUE>>)

\* 'd' while not writing
MenuRemove ==
    /\ HostReads
    /\ ~writing
    /\ ChatsStep("remove_chat", <<>>, 0, Chats_remove_chat(W), <<FALSE>>)

\* Right while not writing
MenuRight ==
    /\ HostReads
    /\ ~writing
    /\ ChatsStep("next_tab", <<>>, 0, Chats_next_tab(W), <<FALSE>>)

\* Left while not writing
MenuLeft ==
    /\ HostReads
    /\ ~writing
    /\ ChatsStep("previous_tab", <<>>, 0, Chats_previous_tab(W), <<FALSE>>)

\* Enter while not writing
MenuEnter ==
    /\ HostReads
    /\ ~writing
    /\ ChatsStep("enter", <<>>, 0, Chats_enter(W), <<FALSE>>)

\* Esc while writing
WriteEsc ==
    /\ HostReads
    /\ writing
    /\ ChatsStep("esc", <<>>, 0, [W EXCEPT !.writing = FALSE], <<FALSE>>)

\* Enter while writing
WriteEnter ==
    /\ HostReads
    /\ writing
    /\ Chats_submits(W) => Len(Chats_chat(W).messages) + 2 <= MaxMsgs
    /\ ChatsStep("submit", <<>>, 0, Chats_submit(W, build), <<FALSE>>)

\* the keys typed into a chat's prompt
ChatKeys == {key \in PromptKeys : key.s \in {<<>>, Chunk}}

\* any other key while writing goes to the selected chat's prompt
WriteKey ==
    \E key \in ChatKeys :
        /\ HostReads
        /\ writing
        /\ Len(Chats_chat(Chats_prompt_input(W, key)).prompt.text) <= MaxWinLen
        /\ Chats_chat(Chats_prompt_input(W, key)).prompt.offset <= MaxOffset
        /\ ChatsStep("key", <<key.code>>, 0, Chats_prompt_input(W, key), <<FALSE>>)

\* the host adds a chat
AddChat ==
    \E system \in Systems :
        /\ HostReads
        /\ Len(chats) < MaxChats
        /\ ChatsStep("add_chat", <<>>, 0, Chats_add_chat(W, system), <<>>)

\* Chats::update on a frame: every chat in turn resizes its prompt and takes
\* one message from its reader, stopping at the first panic; then the selected
\* chat takes the frame as its box and is drawn, which calls its prompt's str()
Frame ==
    \E width \in FrameWidths :
        LET upd(i) == Chat_update(chats[i], width, build)
            stopped(i) == \E j \in 1..(i - 1) : Chat_panicked(upd(j))
            looped == [i \in 1..Len(chats) |->
                          IF stopped(i) THEN chats[i] ELSE upd(i)]
            sel == Chat_update_box(looped[selected_chat + 1], width, build)
            shown == IF \E i \in 1..Len(chats) : Chat_panicked(looped[i])
                     THEN looped
                     ELSE IF Chat_panicked(sel)
                          THEN [looped EXCEPT ![selected_chat + 1] = sel]
                          ELSE [looped EXCEPT ![selected_chat + 1] =
                                    [sel EXCEPT !.prompt =
                                         Panic(sel.prompt, Scroll_str(sel.prompt).panic)]]
        IN /\ ChatsRunning
           /\ \A i \in 1..Len(chats) :
                  stopped(i) \/ Chat_panicked(upd(i)) \/ ~Chat_blocked(chats[i])
           /\ ChatsStep("update", <<>>, 0, [W EXCEPT !.chats = shown], <<>>)

\* stream_answer sends Ok(Some(content))
ThreadChunk ==
    \E i \in 1..Len(chats) :
        /\ ChatsRunning
        /\ chats[i].thread = "live"
        /\ Chat_chunks(chats[i]) < MaxChunks
        /\ ChatsStep("send", <<>>, 0, [W EXCEPT !.chats[i].chan = Append(@, "chunk")], <<>>)

\* stream_answer sends Err(err) for one item of the stream and goes on
ThreadItemErr ==
    \E i \in 1..Len(chats) :
        /\ ChatsRunning
        /\ chats[i].thread = "live"
        /\ \A k \in 1..Len(chats[i].chan) : chats[i].chan[k] # "err"
        /\ ChatsStep("send", <<>>, 0, [W EXCEPT !.chats[i].chan = Append(@, "err")], <<>>)

\* stream_answer sends Ok(None) after the stream and returns
ThreadOver ==
    \E i \in 1..Len(chats) :
        /\ ChatsRunning
        /\ chats[i].thread = "live"
        /\ ChatsStep("send", <<>>, 0,
                     [W EXCEPT !.chats[i].chan = Append(@, "end"),
                               !.chats[i].thread = "over"], <<>>)

\* stream_answer cannot build the request or open the stream: it sends
\* Err(err) and returns
ThreadFails ==
    \E i \in 1..Len(chats) :
        /\ ChatsRunning
        /\ chats[i].thread = "live"
        /\ Chat_chunks(chats[i]) = 0 /\ chats[i].chan = <<>>
        /\ ChatsStep("send", <<>>, 0,
                     [W EXCEPT !.chats[i].chan = Append(@, "err"),
                               !.chats[i].thread = "over"], <<>>)

\* stream_answer cannot build its runtime: it returns without sending
ThreadSilent ==
    \E i \in 1..Len(chats) :
        /\ ChatsRunning
        /\ chats[i].thread = "live"
        /\ Chat_chunks(chats[i]) = 0 /\ chats[i].chan = <<>>
        /\ ChatsStep("return", <<>>, 0, [W EXCEPT !.chats[i].thread = "over"], <<>>)

NextChats ==
    \/ MenuQuit
    \/ MenuRemove
    \/ MenuRight
    \/ MenuLeft
    \/ MenuEnter
    \/ WriteEsc
    \/ WriteEnter
    \/ WriteKey
    \/ AddChat
    \/ Frame
    \/ ThreadChunk
    \/ ThreadItemErr
    \/ ThreadOver
    \/ ThreadFails
    \/ ThreadSilent

\* the chat window under key events, frames and the answer threads
SpecChats == InitChats /\ [][NextChats]_vars


\* ------------------------------------------------------- claims on the chats
IsChats == variant = "chats"

\* Enter while writing has just been handled, from the state last.pre
EnterWhileWriting == IsChats /\ Did("submit")

\* the chat that was selected before the last Enter, then and now
ChatBefore == Chats_chat(last.pre)
ChatAfter == chats[last.pre.selected_chat + 1]

\* C32: Enter while writing flushes the prompt only if the chat is not loading
\* and the prompt is not empty; then the history gains a user message whose
\* content is the prompt text before the Enter, the prompt is empty and
\* writing is left; otherwise neither the prompt nor the history changes
C32_Submit ==
    EnterWhileWriting =>
        IF ~ChatBefore.loading /\ ChatBefore.prompt.text # <<>>
        THEN /\ Len(ChatAfter.messages) > Len(ChatBefore.messages)
             /\ ChatAfter.messages[Len(ChatBefore.messages) + 1]
                    = [role |-> "user", content |-> ChatBefore.prompt.text]
             /\ SubSeq(ChatAfter.messages, 1, Len(ChatBefore.messages))
                    = ChatBefore.messages
             /\ ChatAfter.prompt.text = <<>>
             /\ ~writing
        ELSE /\ ChatAfter.prompt = ChatBefore.prompt
             /\ ChatAfter.messages = ChatBefore.messages

\* an Enter that submitted a typed prompt to a chat with an earlier exchange
C32_Witness ==
    /\ EnterWhileWriting
    /\ ChatBefore.prompt.text = Chunk
    /\ Len(ChatBefore.messages) > 1
    /\ Len(ChatAfter.messages) = Len(ChatBefore.messages) + 2
    /\ ~writing

\* C33: a chat never has two answer streams in flight: no submit happens for
\* a chat whose reader is present, writing is never on while the selected
\* chat has a reader, and a thread that still sends has its receiver held
C33_OneStream ==
    IsChats =>
        /\ (Did("submit") /\ Chats_submits(last.pre)) => ~ChatBefore.reader
        /\ (writing /\ selected_chat < Len(chats)) => ~chats[selected_chat + 1].reader
        /\ \A i \in 1..Len(chats) : chats[i].thread = "live" => chats[i].reader

\* a second submit in a chat whose first answer has been read to its end,
\* while the other chat is still reading
C33_Witness ==
    /\ EnterWhileWriting
    /\ Len(ChatBefore.messages) > 1
    /\ ~ChatBefore.reader
    /\ ChatAfter.reader /\ ChatAfter.thread = "live"
    /\ \E i \in 1..Len(chats) : i # selected_chat + 1 /\ chats[i].reader

\* C34: the list of chats is never empty and selected_chat is an index into it
C34_SelectedValid ==
    IsChats => (Len(chats) >= 1 /\ 0 <= selected_chat /\ selected_chat < Len(chats))

\* a remove_chat that took one of two chats away and kept the other
C34_Witness ==
    /\ IsChats /\ Did("remove_chat")
    /\ Len(chats) = 1 /\ selected_chat = 0
    /\ chats[1] # Chat_default

====
